---- MODULE Spec2Model ----
(***************************************************************************)
(* Glicko-2 player with fractional rating periods (glicko2.ts).            *)
(*                                                                         *)
(* Numbers.  The program computes in IEEE doubles; the model computes in   *)
(* fixed point and rounds every operation to the nearest unit:             *)
(*   - values on the public Glicko scale (rating, RD) are integers in      *)
(*     units of 1/PublicScale   (50.00 is 5000);                           *)
(*   - values on the internal Glicko-2 scale (__rating, __rd, __vol, g, E, *)
(*     v, delta, outcomes) are integers in units of 1/InternalScale        *)
(*     (0.06 is 600);                                                      *)
(*   - elapsed periods are integers in units of 1/PeriodScale;             *)
(*   - timestamps are integer milliseconds, counted from a model epoch.    *)
(* "Equal up to floating tolerance" in the program is "within Tolerance    *)
(* units" in the model.                                                    *)
(***************************************************************************)
EXTENDS Integers, Sequences, FiniteSets, TLC

\* ------------------------------------------------------------------------
\* Fixed-point arithmetic
\* ------------------------------------------------------------------------
PublicScale == 10 * 10
InternalScale == 100 * 100
PeriodScale == 10 * 100

Abs(x) == IF x < 0 THEN -x ELSE x
Sgn(x) == IF x < 0 THEN -1 ELSE IF x > 0 THEN 1 ELSE 0

\* a / b rounded to the nearest integer (b > 0), symmetric about zero.
RoundDiv(a, b) == Sgn(a) * ((2 * Abs(a) + b) \div (2 * b))

\* <<q, r>> with a * b = q * c + r and 0 <= r < c, for a, b >= 0 and c > 0,
\* computed without forming a * b (which may not fit the integer width).
RECURSIVE MulDivQR(_, _, _)
MulDivQR(a, b, c) ==
    IF b = 0 THEN <<0, 0>>
    ELSE LET h == MulDivQR(a, b \div 2, c)
             odd == b % 2
             t == 2 * h[2] + odd * (a % c)
         IN <<2 * h[1] + odd * (a \div c) + (t \div c), t % c>>

\* a * b / c rounded to the nearest integer (c > 0), symmetric about zero: at
\* once when 2 * a * b + c fits the integer width (c < 2^27), stepwise otherwise.
MulDiv(a, b, c) ==
    IF a = 0 \/ b = 0 THEN 0
    ELSE IF c < 134217728 /\ Abs(a) <= 1000000000 \div Abs(b)
    THEN Sgn(a) * Sgn(b) * ((2 * Abs(a) * Abs(b) + c) \div (2 * c))
    ELSE LET qr == IF Abs(a) >= Abs(b) THEN MulDivQR(Abs(a), Abs(b), c)
                                       ELSE MulDivQR(Abs(b), Abs(a), c)
         IN Sgn(a) * Sgn(b) * (qr[1] + (IF 2 * qr[2] >= c THEN 1 ELSE 0))

\* floor(sqrt(n)) by bisection on [lo, hi), n >= 0.
RECURSIVE SqrtBisect(_, _, _)
SqrtBisect(n, lo, hi) ==
    IF hi - lo <= 1 THEN lo
    ELSE LET mid == (lo + hi) \div 2
         IN IF mid * mid <= n THEN SqrtBisect(n, mid, hi)
                              ELSE SqrtBisect(n, lo, mid)

\* sqrt(n) rounded to the nearest integer, 0 <= n < 2^31.
ISqrt(n) ==
    LET f == SqrtBisect(n, 0, 46341)
    IN IF n - f * f > f THEN f + 1 ELSE f

\* Product and quotient of two internal-scale numbers.
MulFP(a, b) == MulDiv(a, b, InternalScale)
DivFP(a, b) == Sgn(b) * MulDiv(a, InternalScale, Abs(b))

\* Math.pow(x, 2) and Math.sqrt(x) of an internal-scale number.
SquareFP(x) == MulFP(x, x)
SqrtFP(x) ==
    IF x = 2147483647 THEN x
    ELSE IF x <= 200000 THEN ISqrt(x * InternalScale)
    ELSE IF x <= 20000000 THEN ISqrt(x * 100) * 10
    ELSE ISqrt(x) * 100


\* Math.exp(x) of an internal-scale number: e^n for the integer part, a
\* Taylor series for the fraction, 1 / exp(-x) for a negative argument.  The
\* result fits the integer width for |x| <= 12; larger arguments saturate.
RECURSIVE ExpInt(_)
ExpInt(n) == IF n = 0 THEN InternalScale
             ELSE MulDiv(ExpInt(n - 1), 27183, InternalScale)

RECURSIVE ExpSeries(_, _, _)
ExpSeries(f, k, term) ==
    IF term = 0 \/ k > 12 THEN 0
    ELSE term + ExpSeries(f, k + 1, RoundDiv(MulFP(term, f), k))

ExpPos(x) ==
    LET c == IF x > 12 * InternalScale THEN 12 * InternalScale ELSE x
    IN MulFP(ExpInt(c \div InternalScale),
             ExpSeries(c % InternalScale, 1, InternalScale))

ExpFP(x) == IF x >= 0 THEN ExpPos(x)
            ELSE MulDiv(InternalScale, InternalScale, ExpPos(-x))

\* 1 / x of an internal-scale number; 1 / 0 is Infinity and 1 / Infinity is 0.
Infinity == 2147483647
Recip(x) == IF x = 0 THEN Infinity
            ELSE IF Abs(x) = Infinity THEN 0
            ELSE DivFP(InternalScale, x)

\* ------------------------------------------------------------------------
\* Scale conversion (player.ts)
\* ------------------------------------------------------------------------
\* const scalingFactor = 173.7178, in units of 1/ScalingUnit.
scalingFactor == 1737178
ScalingUnit == 100 * 100

\* x * scalingFactor: internal-scale x to a public-scale value.
TimesScaling(x) ==
    MulDiv(x, scalingFactor, ScalingUnit * (InternalScale \div PublicScale))
\* y / scalingFactor: public-scale y to an internal-scale value.
OverScaling(y) ==
    MulDiv(y, ScalingUnit * (InternalScale \div PublicScale), scalingFactor)

\* this.defaultRating = 1500 (field initialiser), public scale.
defaultRating == 1500 * PublicScale

getRating(P) == TimesScaling(P.rating) + P.defaultRating
getRd(P) == TimesScaling(P.rd)
getVol(P) == P.vol
getLastUpdateTime(P) == P.lastUpdateTime

\* setRating converting with the initial default rating, not the player's.
setRatingFixedDefault(P, rating) ==
    [P EXCEPT !.rating = OverScaling(rating - defaultRating)]

setRating(P, rating) ==
    [P EXCEPT !.rating = OverScaling(rating - P.defaultRating)]
setRd(P, rd) == [P EXCEPT !.rd = OverScaling(rd)]
setVol(P, vol) == [P EXCEPT !.vol = vol]
setLastUpdateTime(P, timestamp) == [P EXCEPT !.lastUpdateTime = timestamp]

\* ------------------------------------------------------------------------
\* FractionalPeriodCalculator (fractional-period-calculator.ts)
\* ------------------------------------------------------------------------
\* constructor(ratingPeriodDays): the model passes the days in tenths, so
\* that 0.5 and 4.6 days are integers.
FractionalPeriodCalculator(ratingPeriodTenthDays) ==
    [ratingPeriodMs |-> ratingPeriodTenthDays * ((24 * 60 * 60 * 1000) \div 10)]

\* calculateElapsedPeriods without the clamp at zero.
calculateElapsedPeriodsSigned(calc, lastUpdateTime, currentTime) ==
    MulDiv(currentTime - lastUpdateTime, PeriodScale, calc.ratingPeriodMs)

\* Math.max(0, elapsedMs / this.ratingPeriodMs), in units of 1/PeriodScale.
calculateElapsedPeriods(calc, lastUpdateTime, currentTime) ==
    LET elapsedMs == currentTime - lastUpdateTime
        q == MulDiv(elapsedMs, PeriodScale, calc.ratingPeriodMs)
    IN IF q > 0 THEN q ELSE 0

\* calculateNewRd adding one full period whatever the elapsed time.
calculateNewRdOnePeriod(currentRd, volatility, elapsedPeriods) ==
    ISqrt(currentRd * currentRd
          + MulDiv(volatility * volatility, PeriodScale,
                   PeriodScale * ((InternalScale * InternalScale)
                                  \div (PublicScale * PublicScale))))

\* Math.sqrt(currentRd^2 + elapsedPeriods * volatility^2): currentRd on the
\* public scale, volatility on the internal scale, as the caller passes them.
calculateNewRd(currentRd, volatility, elapsedPeriods) ==
    ISqrt(currentRd * currentRd
          + MulDiv(volatility * volatility, elapsedPeriods,
                   PeriodScale * ((InternalScale * InternalScale)
                                  \div (PublicScale * PublicScale))))

\* ------------------------------------------------------------------------
\* Player: the rating period update (player.ts)
\* ------------------------------------------------------------------------
\* The result buffer of a player: the three arrays it references.
Ranks(P, H) == H[P.adv_ranks]
RdsOf(P, H) == H[P.adv_rds]
Outcomes(P, H) == H[P.outcomes]

hasPlayed(P, H) == Len(Outcomes(P, H)) > 0

\* _preRatingRD adding the volatility instead of its square.
_preRatingRDLinear(P) ==
    [P EXCEPT !.rd = ISqrt(P.rd * P.rd + Abs(P.vol))]

\* this.__rd = Math.sqrt(Math.pow(this.__rd, 2) + Math.pow(this.__vol, 2))
_preRatingRD(P) ==
    [P EXCEPT !.rd = ISqrt(P.rd * P.rd + P.vol * P.vol)]

\* 1 / Math.sqrt(1 + (3 * Math.pow(RD, 2)) / Math.pow(Math.PI, 2))
_g(RD) ==
    Recip(SqrtFP(InternalScale + MulDiv(3 * SquareFP(RD), 10000, 98696)))

\* 1 / (1 + Math.exp(-1 * this._g(p2RD) * (this.__rating - p2rating)))
_E(P, p2rating, p2RD) ==
    Recip(InternalScale + ExpFP(MulFP(-1 * _g(p2RD), P.rating - p2rating)))

\* The loop of _letiance: sum of g^2 * E * (1 - E) over entries i..len.
RECURSIVE LetianceSum(_, _, _, _)
LetianceSum(P, ranks, rds, i) ==
    IF i > Len(ranks) THEN 0
    ELSE LET tempE == _E(P, ranks[i], rds[i])
         IN MulFP(MulFP(SquareFP(_g(rds[i])), tempE), InternalScale - tempE)
            + LetianceSum(P, ranks, rds, i + 1)

_letiance(P, H) == Recip(LetianceSum(P, Ranks(P, H), RdsOf(P, H), 1))

\* The loop of _delta and of step 7 summing g * (E - outcome).
RECURSIVE OutcomeSumReversed(_, _, _, _, _)
OutcomeSumReversed(P, ranks, rds, outs, i) ==
    IF i > Len(ranks) THEN 0
    ELSE MulFP(_g(rds[i]), _E(P, ranks[i], rds[i]) - outs[i])
         + OutcomeSumReversed(P, ranks, rds, outs, i + 1)

\* The loop of _delta and of step 7: sum of g * (outcome - E) over entries.
RECURSIVE OutcomeSum(_, _, _, _, _)
OutcomeSum(P, ranks, rds, outs, i) ==
    IF i > Len(ranks) THEN 0
    ELSE MulFP(_g(rds[i]), outs[i] - _E(P, ranks[i], rds[i]))
         + OutcomeSum(P, ranks, rds, outs, i + 1)

_delta(P, H, v) ==
    IF v = Infinity THEN Infinity
    ELSE MulFP(v, OutcomeSum(P, Ranks(P, H), RdsOf(P, H), Outcomes(P, H), 1))

\* The volatility algorithm is a pluggable field of the player, by default
\* newProcedure of algorithms/volatility.ts, an iterative root finder.  The
\* model keeps only what the update relies on: it is called with (v, delta,
\* {vol, tau, rd, rating}) and returns a positive volatility (here 0.0612).
newProcedure(v, delta, args) == {612}

\* Step 7 of update_rank(): the new RD from the inflated RD and v, then the
\* new rating from the new RD; P is the player as update_rank() found it.
NewRating(P, H, P7) ==
    [P7 EXCEPT !.rating =
        P.rating + MulFP(SquareFP(P7.rd),
                         OutcomeSum(P7, Ranks(P, H), RdsOf(P, H),
                                    Outcomes(P, H), 1))]

SumInverse(invSq, invV) ==
    IF invSq = Infinity \/ invV = Infinity THEN Infinity ELSE invSq + invV

NewRd(P, H, P6, v) ==
    NewRating(P, H,
        [P6 EXCEPT !.rd =
            Recip(SqrtFP(SumInverse(Recip(SquareFP(P6.rd)), Recip(v))))])

\* update_rank() inflating the RD (step 6) before it stores the new
\* volatility (step 5).
update_rankInflatingFirst(P, H, newVol) ==
    IF ~hasPlayed(P, H) THEN _preRatingRD(P)
    ELSE NewRd(P, H, [_preRatingRD(P) EXCEPT !.vol = newVol], _letiance(P, H))

\* update_rank(), with the volatility algorithm returning newVol: steps 3
\* and 4 on the player as found, step 5 stores newVol, step 6 inflates the
\* RD, step 7 follows.
update_rank(P, H, newVol) ==
    IF ~hasPlayed(P, H) THEN _preRatingRD(P)
    ELSE NewRd(P, H, _preRatingRD([P EXCEPT !.vol = newVol]), _letiance(P, H))

\* The arguments update_rank() hands to the volatility algorithm.
VolatilityCall(P, H) ==
    LET v == _letiance(P, H)
    IN [v |-> v, delta |-> _delta(P, H, v),
        vol |-> P.vol, tau |-> P.tau, rd |-> P.rd, rating |-> P.rating]

\* The volatilities update_rank() can leave: the algorithm's results on a
\* non-empty buffer, the unchanged volatility on an empty one.
UpdateVols(P, H) ==
    IF hasPlayed(P, H)
    THEN LET c == VolatilityCall(P, H)
         IN newProcedure(c.v, c.delta,
                [vol |-> c.vol, tau |-> c.tau, rd |-> c.rd, rating |-> c.rating])
    ELSE {P.vol}

\* addResult pushing the opponent's public rating and RD.
addResultPublicScale(P, H, opponent, outcome) ==
    [H EXCEPT ![P.adv_ranks] = Append(@, getRating(opponent)),
              ![P.adv_rds] = Append(@, getRd(opponent)),
              ![P.outcomes] = Append(@, outcome)]

\* addResult(opponent, outcome): one push on each of the three arrays.
addResult(P, H, opponent, outcome) ==
    [H EXCEPT ![P.adv_ranks] = Append(@, opponent.rating),
              ![P.adv_rds] = Append(@, opponent.rd),
              ![P.outcomes] = Append(@, outcome)]

\* ------------------------------------------------------------------------
\* Player: time-based RD decay (player.ts)
\* ------------------------------------------------------------------------
Undefined == [kind |-> "undefined"]

\* updateRdForTimeElapsed storing the timestamp whatever the elapsed time.
updateRdForTimeElapsedAlways(P, calc, currentTime) ==
    IF P.fractionalCalculator = Undefined THEN P
    ELSE LET elapsedPeriods ==
                 calculateElapsedPeriods(calc, P.lastUpdateTime, currentTime)
         IN [setRd(P, calculateNewRd(getRd(P), P.vol, elapsedPeriods))
                EXCEPT !.lastUpdateTime = currentTime]

\* updateRdForTimeElapsed storing the decayed RD without the timestamp.
updateRdForTimeElapsedKeepingTime(P, calc, currentTime) ==
    IF P.fractionalCalculator = Undefined THEN P
    ELSE LET elapsedPeriods ==
                 calculateElapsedPeriods(calc, P.lastUpdateTime, currentTime)
         IN IF elapsedPeriods > 0
            THEN setRd(P, calculateNewRd(getRd(P), P.vol, elapsedPeriods))
            ELSE P

\* updateRdForTimeElapsed(currentTime); calc is the player's calculator.
updateRdForTimeElapsed(P, calc, currentTime) ==
    IF P.fractionalCalculator = Undefined THEN P
    ELSE LET elapsedPeriods ==
                 calculateElapsedPeriods(calc, P.lastUpdateTime, currentTime)
         IN IF elapsedPeriods > 0
            THEN [setRd(P, calculateNewRd(getRd(P), P.vol, elapsedPeriods))
                     EXCEPT !.lastUpdateTime = currentTime]
            ELSE P

\* getCurrentRating(currentTime): the returned PlayerRatingState.
getCurrentRating(P, calc, currentTime) ==
    IF P.fractionalCalculator = Undefined
    THEN [kind |-> "state", rating |-> getRating(P), rd |-> getRd(P),
          vol |-> getVol(P), lastUpdateTime |-> P.lastUpdateTime]
    ELSE LET elapsedPeriods ==
                 calculateElapsedPeriods(calc, P.lastUpdateTime, currentTime)
             currentRd == getRd(P)
             timeAdjustedRd ==
                 IF elapsedPeriods > 0
                 THEN calculateNewRd(currentRd, P.vol, elapsedPeriods)
                 ELSE currentRd
         IN [kind |-> "state", rating |-> getRating(P), rd |-> timeAdjustedRd,
             vol |-> getVol(P), lastUpdateTime |-> currentTime]

\* ------------------------------------------------------------------------
\* Player: construction and cloning (player.ts)
\* ------------------------------------------------------------------------
\* The calculator reference a player holds once Glicko2 has set it.
CalculatorRef == [kind |-> "FractionalPeriodCalculator"]

\* new Player(rating, rd, vol, tau), created at time now; its three arrays
\* are the heap cells base+1 .. base+3.  No argument is validated.
Player(rating, rd, vol, tau, now, base) ==
    [tau |-> tau,
     rating |-> OverScaling(rating - defaultRating),
     rd |-> OverScaling(rd),
     vol |-> vol,
     adv_ranks |-> base + 1,
     adv_rds |-> base + 2,
     outcomes |-> base + 3,
     defaultRating |-> defaultRating,
     id |-> 0,
     volatilityAlgorithm |-> "newProcedure",
     lastUpdateTime |-> now,
     fractionalCalculator |-> Undefined]

\* clone() assigning the three arrays instead of spreading them.
cloneSharing(P, H) ==
    [player |-> [Player(getRating(P), getRd(P), getVol(P), P.tau,
                        P.lastUpdateTime, Len(H))
                    EXCEPT !.defaultRating = P.defaultRating,
                           !.volatilityAlgorithm = P.volatilityAlgorithm,
                           !.id = P.id,
                           !.lastUpdateTime = P.lastUpdateTime,
                           !.fractionalCalculator = P.fractionalCalculator,
                           !.adv_ranks = P.adv_ranks,
                           !.adv_rds = P.adv_rds,
                           !.outcomes = P.outcomes],
     heap |-> H \o <<<<>>, <<>>, <<>>>>]

\* clone(): the constructor runs on the public values, then the fields are
\* copied and the three arrays are spread into new arrays.
clone(P, H) ==
    LET base == Len(H)
        made == Player(getRating(P), getRd(P), getVol(P), P.tau,
                       P.lastUpdateTime, base)
    IN [player |-> [made EXCEPT !.defaultRating = P.defaultRating,
                                !.volatilityAlgorithm = P.volatilityAlgorithm,
                                !.id = P.id,
                                !.lastUpdateTime = P.lastUpdateTime,
                                !.fractionalCalculator = P.fractionalCalculator],
        heap |-> H \o <<Ranks(P, H), RdsOf(P, H), Outcomes(P, H)>>]

\* ------------------------------------------------------------------------
\* Glicko2.updateRatingInstant and PuzzleRatingManager (puzzle-rating.ts)
\* ------------------------------------------------------------------------
\* updateRatingInstant(player, opponentRating, opponentRD, outcome, t), with
\* the volatility algorithm returning newVol: RD decay up to t, exactly one
\* opponent result recorded, the period update, lastUpdateTime set to t; the
\* snapshot of the player is returned.
OneResult(P, H, opponentRating, opponentRD, outcome) ==
    LET opponent == Player(opponentRating, opponentRD, P.vol, P.tau, 0, 0)
    IN [H EXCEPT ![P.adv_ranks] = <<opponent.rating>>,
                 ![P.adv_rds] = <<opponent.rd>>,
                 ![P.outcomes] = <<outcome>>]

InstantResult(final, H1) ==
    [player |-> final, heap |-> H1,
     ret |-> [kind |-> "state", rating |-> getRating(final),
              rd |-> getRd(final), vol |-> getVol(final),
              lastUpdateTime |-> final.lastUpdateTime]]

\* updateRatingInstant pushing the result onto the buffer as it stands.
updateRatingInstantAppending(P, H, calc, opponentRating, opponentRD, outcome, t, newVol) ==
    InstantResult(
        setLastUpdateTime(
            update_rank(updateRdForTimeElapsed(P, calc, t),
                        addResult(P, H, Player(opponentRating, opponentRD,
                                               P.vol, P.tau, 0, 0), outcome),
                        newVol),
            t),
        addResult(P, H, Player(opponentRating, opponentRD, P.vol, P.tau, 0, 0),
                  outcome))

updateRatingInstant(P, H, calc, opponentRating, opponentRD, outcome, t, newVol) ==
    InstantResult(
        setLastUpdateTime(
            update_rank(updateRdForTimeElapsed(P, calc, t),
                        OneResult(P, H, opponentRating, opponentRD, outcome),
                        newVol),
            t),
        OneResult(P, H, opponentRating, opponentRD, outcome))

\* processPuzzleAttempt(player, puzzleDifficulty, solved, attemptTime)
processPuzzleAttempt(P, H, calc, puzzleDifficulty, solved, attemptTime, newVol) ==
    LET puzzleRD == 50 * PublicScale
        outcome == IF solved THEN 1 * InternalScale ELSE 0
    IN updateRatingInstant(P, H, calc, puzzleDifficulty, puzzleRD, outcome,
                           attemptTime, newVol)

\* A PuzzleAttempt is a record with difficulty and solved, and with timeSpent
\* (milliseconds) and hintsUsed where the caller gave them.
Has(attempt, field) == field \in DOMAIN attempt

\* adjustedOutcome without Math.min and Math.max.
adjustedOutcomeUnclamped(attempt) ==
    (IF attempt.solved THEN InternalScale ELSE 0)
    + (IF Has(attempt, "timeSpent") /\ attempt.solved
       THEN IF attempt.timeSpent < 30000 THEN InternalScale \div 10
            ELSE IF attempt.timeSpent > 300000 THEN -(InternalScale \div 20)
            ELSE 0
       ELSE 0)
    - (IF Has(attempt, "hintsUsed") /\ attempt.hintsUsed > 0
       THEN attempt.hintsUsed * (InternalScale \div 10)
       ELSE 0)

\* The outcome processPuzzleAttemptAdvanced passes on: 1 or 0, the time bonus
\* (+0.1, at most 1.0) or penalty (-0.05) of a solved attempt, the hint
\* penalty (0.1 a hint, at least 0).
adjustedOutcome(attempt) ==
    LET base == IF attempt.solved THEN InternalScale ELSE 0
        timed ==
            IF Has(attempt, "timeSpent") /\ attempt.solved
            THEN IF attempt.timeSpent < 30000
                 THEN IF base + InternalScale \div 10 < InternalScale
                      THEN base + InternalScale \div 10 ELSE InternalScale
                 ELSE IF attempt.timeSpent > 300000
                 THEN IF base - InternalScale \div 20 > 0
                      THEN base - InternalScale \div 20 ELSE 0
                 ELSE base
            ELSE base
    IN IF Has(attempt, "hintsUsed") /\ attempt.hintsUsed > 0
       THEN IF timed - attempt.hintsUsed * (InternalScale \div 10) > 0
            THEN timed - attempt.hintsUsed * (InternalScale \div 10) ELSE 0
       ELSE timed

\* The opponent RD processPuzzleAttemptAdvanced passes on: 50, and 10 more
\* for every hint.
puzzleRD(attempt) ==
    50 * PublicScale
    + (IF Has(attempt, "hintsUsed") THEN attempt.hintsUsed * 10 * PublicScale
       ELSE 0)

\* processPuzzleAttemptAdvanced(player, attempt, attemptTime)
processPuzzleAttemptAdvanced(P, H, calc, attempt, attemptTime, newVol) ==
    updateRatingInstant(P, H, calc, attempt.difficulty, puzzleRD(attempt),
                        adjustedOutcome(attempt), attemptTime, newVol)

\* attempt.attemptTime || Date.now(): a missing attemptTime and an attemptTime
\* of 0 both give the current time.
attemptTime(attempt, now) ==
    IF Has(attempt, "attemptTime") /\ attempt.attemptTime # 0
    THEN attempt.attemptTime
    ELSE now

\* processPuzzleAttempts(player, attempts), called at time now: the loop over
\* the attempts left, finalState being the state the last iteration
\* assigned (undefined before the first).  The results the call can have.
RECURSIVE processPuzzleAttempts(_, _, _, _, _, _)
processPuzzleAttempts(P, H, calc, attempts, now, finalState) ==
    IF attempts = <<>>
    THEN {[player |-> P, heap |-> H, ret |-> finalState]}
    ELSE UNION {
           processPuzzleAttempts(r.player, r.heap, calc, Tail(attempts), now, r.ret) :
             r \in {processPuzzleAttemptAdvanced(
                        P, H, calc, Head(attempts),
                        attemptTime(Head(attempts), now), newVol) :
                      newVol \in UpdateVols(
                          updateRdForTimeElapsed(
                              P, calc, attemptTime(Head(attempts), now)),
                          OneResult(P, H, Head(attempts).difficulty,
                                    puzzleRD(Head(attempts)), 0))}}

\* Math.pow(10, x) of an internal-scale number: exp(x * ln 10).
Pow10(x) == ExpFP(MulDiv(x, 23026, 10000))

\* Math.round(x) of a public-scale number: the nearest integer, halves up.
MathRound(x) == ((x + PublicScale \div 2) \div PublicScale) * PublicScale

\* calculateExpectedScore(playerRating, puzzleDifficulty, playerRD), the
\* arguments on the public scale, the result on the internal one; q is
\* Math.LN10 / 400.
calculateExpectedScore(playerRating, puzzleDifficulty, playerRD) ==
    Recip(InternalScale
          + Pow10(MulDiv(
                -1 * Recip(SqrtFP(InternalScale
                                  + MulDiv(3 * SquareFP(MulDiv(playerRD, 23026,
                                                               40000)),
                                           10000, 98696))),
                playerRating - puzzleDifficulty,
                400 * PublicScale)))

\* for (let i = 0; i < 20; i++)
MaxIterations == 20

\* One record for an iteration of the search: what it saw and whether it
\* returned.
Iteration(low, high, mid, expectedScore, targetSuccessRate) ==
    [low |-> low, high |-> high, mid |-> mid, expectedScore |-> expectedScore,
     returned |-> Abs(expectedScore - targetSuccessRate) < InternalScale \div 100]

\* The search moving toward easier puzzles when the expected score at mid
\* exceeds the target.
RECURSIVE BisectionReversed(_, _, _, _, _, _)
BisectionReversed(rating, rd, targetSuccessRate, low, high, i) ==
    IF i >= MaxIterations THEN <<>>
    ELSE LET it == Iteration(low, high, RoundDiv(low + high, 2),
                             calculateExpectedScore(rating,
                                 RoundDiv(low + high, 2), rd),
                             targetSuccessRate)
         IN IF it.returned THEN <<it>>
            ELSE <<it>> \o BisectionReversed(
                     rating, rd, targetSuccessRate,
                     IF it.expectedScore > targetSuccessRate THEN low ELSE it.mid,
                     IF it.expectedScore > targetSuccessRate THEN it.mid ELSE high,
                     i + 1)

\* The loop of suggestPuzzleDifficulty from iteration i on: the iterations
\* it runs, in order.
RECURSIVE Bisection(_, _, _, _, _, _)
Bisection(rating, rd, targetSuccessRate, low, high, i) ==
    IF i >= MaxIterations THEN <<>>
    ELSE LET it == Iteration(low, high, RoundDiv(low + high, 2),
                             calculateExpectedScore(rating,
                                 RoundDiv(low + high, 2), rd),
                             targetSuccessRate)
         IN IF it.returned THEN <<it>>
            ELSE <<it>> \o Bisection(
                     rating, rd, targetSuccessRate,
                     IF it.expectedScore > targetSuccessRate THEN it.mid ELSE low,
                     IF it.expectedScore > targetSuccessRate THEN high ELSE it.mid,
                     i + 1)

\* What suggestPuzzleDifficulty returns after the iterations steps: the
\* rounded mid of the iteration that returned, or the rounded middle of the
\* interval the last iteration left.
Suggested(steps, targetSuccessRate) ==
    LET it == steps[Len(steps)]
    IN IF it.returned THEN MathRound(it.mid)
       ELSE IF it.expectedScore > targetSuccessRate
       THEN MathRound(RoundDiv(it.mid + it.high, 2))
       ELSE MathRound(RoundDiv(it.low + it.mid, 2))

\* suggestPuzzleDifficulty(player, targetSuccessRate), called at time now:
\* the returned number, with the snapshot and the iterations behind it.
suggestPuzzleDifficulty(P, calc, now, targetSuccessRate) ==
    LET currentRating == getCurrentRating(P, calc, now)
        steps == Bisection(currentRating.rating, currentRating.rd,
                           targetSuccessRate,
                           currentRating.rating - 500 * PublicScale,
                           currentRating.rating + 500 * PublicScale, 0)
    IN [kind |-> "number", value |-> Suggested(steps, targetSuccessRate),
        currentRating |-> currentRating, steps |-> steps]

\* ------------------------------------------------------------------------
\* The state machine: a program that holds a few players and calls their
\* public operations
\* ------------------------------------------------------------------------
MaxOps == 2
MaxPlayers == 2
MaxTick == 2

TickMs == 12 * 60 * 60 * 1000
Times == {k * TickMs : k \in 0..MaxTick}
\* The timestamps a later call can be made with: one tick beyond Times.
LaterTimes == {k * TickMs : k \in 0..(MaxTick + 1)}

\* The arguments the calls are made with.  The first player is constructed
\* from the Initial sets, a later one from the Opponent sets.
InitialRatings == {1400 * PublicScale}
InitialRds == {50 * PublicScale}
InitialVols == {600, 10000}
OpponentRatings == {1600 * PublicScale}
OpponentRds == {0, 100 * PublicScale}
OpponentVols == {600}
ConstructorRds == {-50 * PublicScale, 0, 50 * PublicScale}
ConstructorVols == {-600, 0, 600}
RatingInputs == {1600 * PublicScale}
RdInputs == {-50 * PublicScale, 100 * PublicScale}
VolInputs == {0}
TauInputs == {5000}
OutcomeInputs == {0, 10000, 15000}
DefaultRatingInputs == {1000 * PublicScale}
PeriodInputs == {1, 5}
CalculatorInputs == {-10, 0, 5, 10, 46}

VARIABLES
    players,     \* the Player objects, by slot 1..n
    heap,        \* the array objects the players' adv_ranks/adv_rds/outcomes reference
    calculator,  \* the FractionalPeriodCalculator the Glicko2 instance shares out
    ret,         \* what the last call returned
    last,        \* the last call: its name, target, arguments and the state before it
    ops,         \* the number of calls made
    cloned       \* the pairs <<original, clone>> that clone() has produced

vars == <<players, heap, calculator, ret, last, ops, cloned>>

Slots == 1..Len(players)

Call(name, p, arg) ==
    [op |-> name, p |-> p, arg |-> arg, prePlayers |-> players, preHeap |-> heap]

Init ==
    /\ \E rating \in InitialRatings, rd \in InitialRds, vol \in InitialVols,
          tau \in TauInputs, now \in {TickMs}, enabled \in BOOLEAN :
          /\ players = <<[Player(rating, rd, vol, tau, now, 0) EXCEPT
                             !.fractionalCalculator =
                                 IF enabled THEN CalculatorRef ELSE Undefined]>>
          /\ last = [op |-> "new Player", p |-> 1,
                     arg |-> [rating |-> rating, rd |-> rd, vol |-> vol,
                              tau |-> tau, now |-> now],
                     prePlayers |-> <<>>, preHeap |-> <<>>]
    /\ heap = <<<<>>, <<>>, <<>>>>
    /\ \E days \in PeriodInputs : calculator = FractionalPeriodCalculator(days)
    /\ ret = [kind |-> "Player", slot |-> 1]
    /\ ops = 0
    /\ cloned = {}

\* new Player(rating, rd, vol, tau), the arguments drawn from the given sets
Construct(ratings, rds, vols) ==
    /\ ops < MaxOps
    /\ Len(players) < MaxPlayers
    /\ \E rating \in ratings, rd \in rds, vol \in vols,
          tau \in TauInputs, now \in {TickMs} :
          /\ players' = Append(players, Player(rating, rd, vol, tau, now, Len(heap)))
          /\ last' = Call("new Player", Len(players) + 1,
                          [rating |-> rating, rd |-> rd, vol |-> vol,
                           tau |-> tau, now |-> now])
    /\ heap' = heap \o <<<<>>, <<>>, <<>>>>
    /\ ret' = [kind |-> "Player", slot |-> Len(players) + 1]
    /\ ops' = ops + 1
    /\ UNCHANGED <<calculator, cloned>>

NewPlayer == Construct(OpponentRatings, OpponentRds, OpponentVols)

\* new FractionalPeriodCalculator(ratingPeriodDays), by the caller itself
NewCalculator ==
    /\ ops < MaxOps
    /\ \E days \in CalculatorInputs :
          /\ ret' = [kind |-> "FractionalPeriodCalculator",
                     calc |-> FractionalPeriodCalculator(days)]
          /\ last' = Call("new FractionalPeriodCalculator", 0, [days |-> days])
    /\ ops' = ops + 1
    /\ UNCHANGED <<players, heap, calculator, cloned>>

\* player.setFractionalCalculator(calculator), as Glicko2.makePlayer does
SetFractionalCalculator ==
    /\ ops < MaxOps
    /\ \E p \in Slots :
          /\ players' = [players EXCEPT ![p].fractionalCalculator = CalculatorRef]
          /\ last' = Call("setFractionalCalculator", p, [none |-> 0])
    /\ ret' = Undefined
    /\ ops' = ops + 1
    /\ UNCHANGED <<heap, calculator, cloned>>

\* player.defaultRating = rating (a public field)
SetDefaultRating ==
    /\ ops < MaxOps
    /\ \E p \in Slots, rating \in DefaultRatingInputs :
          /\ players' = [players EXCEPT ![p].defaultRating = rating]
          /\ last' = Call("defaultRating =", p, [rating |-> rating])
    /\ ret' = Undefined
    /\ ops' = ops + 1
    /\ UNCHANGED <<heap, calculator, cloned>>

SetRating ==
    /\ ops < MaxOps
    /\ \E p \in Slots, rating \in RatingInputs :
          /\ players' = [players EXCEPT ![p] = setRating(@, rating)]
          /\ last' = Call("setRating", p, [rating |-> rating])
    /\ ret' = Undefined
    /\ ops' = ops + 1
    /\ UNCHANGED <<heap, calculator, cloned>>

SetRd ==
    /\ ops < MaxOps
    /\ \E p \in Slots, rd \in RdInputs :
          /\ players' = [players EXCEPT ![p] = setRd(@, rd)]
          /\ last' = Call("setRd", p, [rd |-> rd])
    /\ ret' = Undefined
    /\ ops' = ops + 1
    /\ UNCHANGED <<heap, calculator, cloned>>

SetVol ==
    /\ ops < MaxOps
    /\ \E p \in Slots, vol \in VolInputs :
          /\ players' = [players EXCEPT ![p] = setVol(@, vol)]
          /\ last' = Call("setVol", p, [vol |-> vol])
    /\ ret' = Undefined
    /\ ops' = ops + 1
    /\ UNCHANGED <<heap, calculator, cloned>>

SetLastUpdateTime ==
    /\ ops < MaxOps
    /\ \E p \in Slots, t \in Times :
          /\ players' = [players EXCEPT ![p] = setLastUpdateTime(@, t)]
          /\ last' = Call("setLastUpdateTime", p, [t |-> t])
    /\ ret' = Undefined
    /\ ops' = ops + 1
    /\ UNCHANGED <<heap, calculator, cloned>>

AddResult ==
    /\ ops < MaxOps
    /\ \E p \in Slots, q \in Slots, outcome \in OutcomeInputs :
          /\ heap' = addResult(players[p], heap, players[q], outcome)
          /\ last' = Call("addResult", p, [opponent |-> q, outcome |-> outcome])
    /\ ret' = Undefined
    /\ ops' = ops + 1
    /\ UNCHANGED <<players, calculator, cloned>>

UpdateRank ==
    /\ ops < MaxOps
    /\ \E p \in Slots :
          \E newVol \in UpdateVols(players[p], heap) :
             /\ players' = [players EXCEPT ![p] = update_rank(@, heap, newVol)]
             /\ last' = Call("update_rank", p, [none |-> 0])
    /\ ret' = Undefined
    /\ ops' = ops + 1
    /\ UNCHANGED <<heap, calculator, cloned>>

UpdateRdForTimeElapsed ==
    /\ ops < MaxOps
    /\ \E p \in Slots, t \in Times :
          /\ players' = [players EXCEPT
                            ![p] = updateRdForTimeElapsed(@, calculator, t)]
          /\ last' = Call("updateRdForTimeElapsed", p, [t |-> t])
    /\ ret' = Undefined
    /\ ops' = ops + 1
    /\ UNCHANGED <<heap, calculator, cloned>>

\* getCurrentRating storing the decayed RD and the timestamp it reports.
GetCurrentRatingStoring ==
    /\ ops < MaxOps
    /\ \E p \in Slots, t \in Times :
          /\ ret' = getCurrentRating(players[p], calculator, t)
          /\ players' = [players EXCEPT
                            ![p] = updateRdForTimeElapsed(@, calculator, t)]
          /\ last' = Call("getCurrentRating", p, [t |-> t])
    /\ ops' = ops + 1
    /\ UNCHANGED <<heap, calculator, cloned>>

GetCurrentRating ==
    /\ ops < MaxOps
    /\ \E p \in Slots, t \in Times :
          /\ ret' = getCurrentRating(players[p], calculator, t)
          /\ last' = Call("getCurrentRating", p, [t |-> t])
    /\ ops' = ops + 1
    /\ UNCHANGED <<players, heap, calculator, cloned>>

Clone ==
    /\ ops < MaxOps
    /\ Len(players) < MaxPlayers
    /\ \E p \in Slots :
          \E c \in {clone(players[p], heap)} :
             /\ players' = Append(players, c.player)
             /\ heap' = c.heap
             /\ last' = Call("clone", p, [none |-> 0])
             /\ cloned' = cloned \cup {<<p, Len(players) + 1>>}
    /\ ret' = [kind |-> "Player", slot |-> Len(players) + 1]
    /\ ops' = ops + 1
    /\ UNCHANGED calculator

\* calculator.calculateElapsedPeriods(lastUpdateTime, currentTime)
CalculateElapsedPeriods ==
    /\ ops < MaxOps
    /\ \E t0 \in Times, t1 \in Times :
          /\ ret' = [kind |-> "number",
                     value |-> calculateElapsedPeriods(calculator, t0, t1)]
          /\ last' = Call("calculateElapsedPeriods", 0,
                          [lastUpdateTime |-> t0, currentTime |-> t1])
    /\ ops' = ops + 1
    /\ UNCHANGED <<players, heap, calculator, cloned>>

\* puzzleManager.processPuzzleAttempt(player, difficulty, solved, attemptTime)
ProcessPuzzleAttempt ==
    /\ ops < MaxOps
    /\ \E p \in Slots, difficulty \in RatingInputs, solved \in BOOLEAN,
          t \in Times :
          \E newVol \in UpdateVols(updateRdForTimeElapsed(players[p], calculator, t),
                                   OneResult(players[p], heap, difficulty,
                                             50 * PublicScale, 0)) :
          \E r \in {processPuzzleAttempt(players[p], heap, calculator,
                                         difficulty, solved, t, newVol)} :
             /\ players' = [players EXCEPT ![p] = r.player]
             /\ heap' = r.heap
             /\ ret' = r.ret
             /\ last' = Call("processPuzzleAttempt", p,
                             [difficulty |-> difficulty, solved |-> solved,
                              t |-> t])
    /\ ops' = ops + 1
    /\ UNCHANGED <<calculator, cloned>>

Next ==
    \/ NewPlayer
    \/ SetFractionalCalculator
    \/ SetDefaultRating
    \/ SetRating
    \/ SetRd
    \/ SetVol
    \/ SetLastUpdateTime
    \/ AddResult
    \/ UpdateRank
    \/ UpdateRdForTimeElapsed
    \/ GetCurrentRating
    \/ Clone
    \/ ProcessPuzzleAttempt

Spec == Init /\ [][Next]_vars

\* The constructors and the calculator on their own: a program that
\* constructs players and calculators and asks a calculator for elapsed
\* periods.
InitLibrary ==
    /\ players = <<>>
    /\ heap = <<>>
    /\ \E days \in {d \in CalculatorInputs : d > 0} :
          calculator = FractionalPeriodCalculator(days)
    /\ ret = Undefined
    /\ last = [op |-> "start", p |-> 0, arg |-> [none |-> 0],
               prePlayers |-> <<>>, preHeap |-> <<>>]
    /\ ops = 0
    /\ cloned = {}

ConstructPlayer == Construct(InitialRatings, ConstructorRds, ConstructorVols)

NextLibrary ==
    \/ ConstructPlayer
    \/ NewCalculator
    \/ CalculateElapsedPeriods

SpecLibrary == InitLibrary /\ [][NextLibrary]_vars

\* The puzzle manager on its own: one player with a calculator attempts
\* puzzles.  An attempt carries timeSpent and hintsUsed or leaves them out.
TimeSpentInputs == {10000, 60000, 400000}
HintsUsedInputs == {0, 1, 12}
AttemptInputs ==
    UNION {
        {[difficulty |-> d, solved |-> s] : d \in RatingInputs, s \in BOOLEAN},
        {[difficulty |-> d, solved |-> s, timeSpent |-> ms] :
            d \in RatingInputs, s \in BOOLEAN, ms \in TimeSpentInputs},
        {[difficulty |-> d, solved |-> s, hintsUsed |-> h] :
            d \in RatingInputs, s \in BOOLEAN, h \in HintsUsedInputs},
        {[difficulty |-> d, solved |-> s, timeSpent |-> ms, hintsUsed |-> h] :
            d \in RatingInputs, s \in BOOLEAN, ms \in TimeSpentInputs,
            h \in HintsUsedInputs}}

InitPuzzle ==
    /\ \E rating \in InitialRatings, rd \in InitialRds, vol \in OpponentVols,
          tau \in TauInputs :
          players = <<[Player(rating, rd, vol, tau, TickMs, 0) EXCEPT
                          !.fractionalCalculator = CalculatorRef]>>
    /\ heap = <<<<>>, <<>>, <<>>>>
    /\ \E days \in PeriodInputs : calculator = FractionalPeriodCalculator(days)
    /\ ret = Undefined
    /\ last = [op |-> "start", p |-> 0, arg |-> [none |-> 0],
               prePlayers |-> <<>>, preHeap |-> <<>>]
    /\ ops = 0
    /\ cloned = {}

\* puzzleManager.processPuzzleAttemptAdvanced(player, attempt, attemptTime)
ProcessPuzzleAttemptAdvanced ==
    /\ ops < MaxOps
    /\ \E p \in Slots, attempt \in AttemptInputs, t \in {MaxTick * TickMs} :
          \E newVol \in UpdateVols(updateRdForTimeElapsed(players[p], calculator, t),
                                   OneResult(players[p], heap, attempt.difficulty,
                                             puzzleRD(attempt), 0)) :
          \E r \in {processPuzzleAttemptAdvanced(players[p], heap, calculator,
                                                 attempt, t, newVol)} :
             /\ players' = [players EXCEPT ![p] = r.player]
             /\ heap' = r.heap
             /\ ret' = r.ret
             /\ last' = Call("processPuzzleAttemptAdvanced", p,
                             [attempt |-> attempt, t |-> t])
    /\ ops' = ops + 1
    /\ UNCHANGED <<calculator, cloned>>

NextPuzzle ==
    \/ ProcessPuzzleAttempt
    \/ ProcessPuzzleAttemptAdvanced

SpecPuzzle == InitPuzzle /\ [][NextPuzzle]_vars

\* Batches of attempts: none, one or two attempts, with attemptTime left
\* out, 0 or the time of the first tick.
BatchAttemptInputs ==
    UNION {
        {[difficulty |-> d, solved |-> TRUE] : d \in RatingInputs},
        {[difficulty |-> d, solved |-> FALSE, attemptTime |-> 0] :
            d \in RatingInputs},
        {[difficulty |-> d, solved |-> TRUE, hintsUsed |-> 1,
          attemptTime |-> TickMs] : d \in RatingInputs}}
BatchInputs ==
    UNION {{<<>>},
           {<<a>> : a \in BatchAttemptInputs},
           {<<a, b>> : a \in BatchAttemptInputs, b \in BatchAttemptInputs}}

\* puzzleManager.processPuzzleAttempts(player, attempts), called at time now
ProcessPuzzleAttempts ==
    /\ ops < MaxOps
    /\ \E p \in Slots, attempts \in BatchInputs, now \in {MaxTick * TickMs} :
          \E r \in processPuzzleAttempts(players[p], heap, calculator, attempts,
                                         now, Undefined) :
             /\ players' = [players EXCEPT ![p] = r.player]
             /\ heap' = r.heap
             /\ ret' = r.ret
             /\ last' = Call("processPuzzleAttempts", p,
                             [attempts |-> attempts, now |-> now])
    /\ ops' = ops + 1
    /\ UNCHANGED <<calculator, cloned>>

NextBatch ==
    \/ ProcessPuzzleAttempts
    \/ ProcessPuzzleAttemptAdvanced

SpecBatch == InitPuzzle /\ [][NextBatch]_vars

\* Difficulty suggestions: a player of some rating and RD, with or without a
\* calculator, asks for a puzzle difficulty for a target success rate.
SuggestRatings == {1200 * PublicScale, 1500 * PublicScale + 30, 1800 * PublicScale}
SuggestRds == {50 * PublicScale, 350 * PublicScale}
TargetInputs == {3000, 5000, 5050, 5100, 7000, 9900, 12000}

InitSuggest ==
    /\ \E rating \in SuggestRatings, rd \in SuggestRds, vol \in OpponentVols,
          tau \in TauInputs, enabled \in BOOLEAN :
          players = <<[Player(rating, rd, vol, tau, TickMs, 0) EXCEPT
                          !.fractionalCalculator =
                              IF enabled THEN CalculatorRef ELSE Undefined]>>
    /\ heap = <<<<>>, <<>>, <<>>>>
    /\ \E days \in PeriodInputs : calculator = FractionalPeriodCalculator(days)
    /\ ret = Undefined
    /\ last = [op |-> "start", p |-> 0, arg |-> [none |-> 0],
               prePlayers |-> <<>>, preHeap |-> <<>>]
    /\ ops = 0
    /\ cloned = {}

\* puzzleManager.suggestPuzzleDifficulty(player, targetSuccessRate), called
\* at time now
SuggestPuzzleDifficulty ==
    /\ ops < MaxOps
    /\ \E p \in Slots, target \in TargetInputs, now \in {MaxTick * TickMs} :
          /\ ret' = suggestPuzzleDifficulty(players[p], calculator, now, target)
          /\ last' = Call("suggestPuzzleDifficulty", p,
                          [target |-> target, now |-> now])
    /\ ops' = ops + 1
    /\ UNCHANGED <<players, heap, calculator, cloned>>

NextSuggest ==
    \/ SuggestPuzzleDifficulty
    \/ SetRating
    \/ SetRd

SpecSuggest == InitSuggest /\ [][NextSuggest]_vars

\* The rating period update on its own: two players of several strengths
\* record results against each other and run the period update.
MatchRatings == {1300 * PublicScale, 1500 * PublicScale, 1700 * PublicScale}
MatchRds == {30 * PublicScale, 350 * PublicScale}

InitPeriod ==
    /\ \E rating \in MatchRatings, rd1 \in MatchRds, rd2 \in MatchRds,
          vol \in InitialVols, tau \in TauInputs :
          players = <<Player(1500 * PublicScale, rd1, vol, tau, TickMs, 0),
                      Player(rating, rd2, vol, tau, TickMs, 3)>>
    /\ heap = <<<<>>, <<>>, <<>>, <<>>, <<>>, <<>>>>
    /\ \E days \in PeriodInputs : calculator = FractionalPeriodCalculator(days)
    /\ ret = Undefined
    /\ last = [op |-> "start", p |-> 0, arg |-> [none |-> 0],
               prePlayers |-> <<>>, preHeap |-> <<>>]
    /\ ops = 0
    /\ cloned = {}

NextPeriod ==
    \/ AddResult
    \/ UpdateRank

SpecPeriod == InitPeriod /\ [][NextPeriod]_vars

\* ------------------------------------------------------------------------
\* Properties
\* ------------------------------------------------------------------------
\* The player the last call was made on, now and before the call.
Target == players[last.p]
Before == last.prePlayers[last.p]

\* The result buffer of player P in heap H.
BufferOf(P, H) == <<Ranks(P, H), RdsOf(P, H), Outcomes(P, H)>>

\* The array objects player P references.
ArraysOf(P) == {P.adv_ranks, P.adv_rds, P.outcomes}

\* Everything of slot q is as it was before the last call.
Untouched(q) ==
    /\ players[q] = last.prePlayers[q]
    /\ BufferOf(players[q], heap) = BufferOf(last.prePlayers[q], last.preHeap)

\* C1: after update_rank() on a player whose result buffer is non-empty the
\* buffer is empty (hasPlayed() is false), so that a second update_rank()
\* takes the idle branch.
C1_BufferEmptyAfterUpdate ==
    (last.op = "update_rank" /\ hasPlayed(Before, last.preHeap))
        => ~hasPlayed(Target, heap)

\* C2: update_rank() on an empty buffer leaves the rating, the volatility,
\* lastUpdateTime and the buffer as they were, and the new RD is the square
\* root of RD^2 + vol^2 (to the nearest unit: |RD'^2 - (RD^2 + vol^2)| <= RD').
C2_IdleUpdateOnlyInflatesRd ==
    (last.op = "update_rank" /\ ~hasPlayed(Before, last.preHeap))
        => /\ Target.rating = Before.rating
           /\ Target.vol = Before.vol
           /\ Target.lastUpdateTime = Before.lastUpdateTime
           /\ [Target EXCEPT !.rd = Before.rd] = Before
           /\ heap = last.preHeap
           /\ \A q \in 1..Len(last.prePlayers) : q # last.p => Untouched(q)
           /\ Target.rd >= 0
           /\ Abs(Target.rd * Target.rd
                  - (Before.rd * Before.rd + Before.vol * Before.vol))
                 <= Target.rd

C2_Witness ==
    /\ last.op = "update_rank"
    /\ ~hasPlayed(Before, last.preHeap)
    /\ Before.vol > 0
    /\ Target.rd > Before.rd

\* C3: getCurrentRating(t) leaves every player and every array as it was, with
\* or without a calculator, and a second call with the same t returns the
\* same (rating, rd, vol, lastUpdateTime).
C3_ProjectionIsReadOnly ==
    last.op = "getCurrentRating"
        => /\ players = last.prePlayers
           /\ heap = last.preHeap
           /\ ret = getCurrentRating(Target, calculator, last.arg.t)

C3_Witness ==
    /\ last.op = "getCurrentRating"
    /\ Target.fractionalCalculator # Undefined
    /\ last.arg.t > Target.lastUpdateTime
    /\ ret.rd > getRd(Target)
    /\ ret.lastUpdateTime # Target.lastUpdateTime

\* C4 as claimed: updateRdForTimeElapsed(t) on a player with a calculator
\* leaves lastUpdateTime = t, for every t.
C4_AlwaysStoresTimestamp ==
    (last.op = "updateRdForTimeElapsed" /\ Before.fractionalCalculator # Undefined)
        => Target.lastUpdateTime = last.arg.t

\* The RD^2 the decay adds on the public scale, in units of 1/PublicScale^2.
DecayIncrement(P, t) ==
    MulDiv(P.vol * P.vol,
           calculateElapsedPeriods(calculator, P.lastUpdateTime, t),
           PeriodScale * ((InternalScale * InternalScale)
                          \div (PublicScale * PublicScale)))

\* C4 as amended: updateRdForTimeElapsed(t) on a player with a calculator
\* stores the decayed RD (public RD'^2 = RD^2 + elapsedPeriods * vol^2, up to
\* rounding; never a smaller RD) and lastUpdateTime = t when t is later than
\* lastUpdateTime, and changes nothing when t is lastUpdateTime or earlier.
C4_DecayOnlyForward ==
    (last.op = "updateRdForTimeElapsed" /\ Before.fractionalCalculator # Undefined)
        => /\ heap = last.preHeap
           /\ \A q \in 1..Len(last.prePlayers) : q # last.p => Untouched(q)
           /\ last.arg.t <= Before.lastUpdateTime => Target = Before
           /\ last.arg.t > Before.lastUpdateTime =>
                 /\ Target.lastUpdateTime = last.arg.t
                 /\ [Target EXCEPT !.rd = Before.rd,
                                   !.lastUpdateTime = Before.lastUpdateTime] = Before
                 /\ Target.rd >= Before.rd
                 /\ Abs(getRd(Target) * getRd(Target)
                        - (getRd(Before) * getRd(Before)
                           + DecayIncrement(Before, last.arg.t)))
                       <= 3 * Abs(getRd(Target)) + 4

C4_Witness ==
    /\ last.op = "updateRdForTimeElapsed"
    /\ Before.fractionalCalculator # Undefined
    /\ last.arg.t > Before.lastUpdateTime
    /\ Target.lastUpdateTime = last.arg.t
    /\ Target.rd > Before.rd

\* A tenth of a day in milliseconds: period lengths and the model's
\* timestamps are multiples of it.
TenthDayMs == (24 * 60 * 60 * 1000) \div 10

\* C5: for a positive period length calculateElapsedPeriods(last, current) is
\* never negative, is (current - last) / ratingPeriodMs (to the nearest unit)
\* when current > last, and is 0 when current <= last.
C5_ElapsedPeriodsClamped ==
    last.op = "calculateElapsedPeriods"
        => LET elapsedMs == last.arg.currentTime - last.arg.lastUpdateTime
               period == calculator.ratingPeriodMs \div TenthDayMs
           IN /\ ret.value >= 0
              /\ elapsedMs <= 0 => ret.value = 0
              /\ elapsedMs > 0 =>
                    2 * Abs(ret.value * period
                            - (elapsedMs \div TenthDayMs) * PeriodScale)
                       <= period

C5_Witness ==
    /\ last.op = "calculateElapsedPeriods"
    /\ last.arg.currentTime < last.arg.lastUpdateTime
    /\ ret.value = 0

\* C6: clone() returns another Player whose getRating(), getRd(), getVol(),
\* getLastUpdateTime(), adv_ranks, adv_rds and outcomes equal the original's,
\* whatever the original's defaultRating.
C6_CloneEqualsOriginal ==
    last.op = "clone"
        => LET original == players[last.p]
               copy == players[ret.slot]
           IN /\ ret.slot # last.p
              /\ getRating(copy) = getRating(original)
              /\ getRd(copy) = getRd(original)
              /\ getVol(copy) = getVol(original)
              /\ getLastUpdateTime(copy) = getLastUpdateTime(original)
              /\ BufferOf(copy, heap) = BufferOf(original, heap)

\* The calls C7 is about.
Mutators ==
    {"addResult", "update_rank", "setRating", "setRd", "setVol",
     "setLastUpdateTime", "updateRdForTimeElapsed"}

\* C7: a clone and its original reference different arrays, and a mutating
\* call on either of them leaves the other's rating, RD, volatility,
\* lastUpdateTime and result buffer as they were.
C7_CloneIsIndependent ==
    \A pair \in cloned :
       /\ ArraysOf(players[pair[1]]) \cap ArraysOf(players[pair[2]]) = {}
       /\ (last.op \in Mutators /\ last.p = pair[2]) => Untouched(pair[1])
       /\ (last.op \in Mutators /\ last.p = pair[1]
             /\ pair[2] <= Len(last.prePlayers)) => Untouched(pair[2])

C7_Witness ==
    \E pair \in cloned :
       /\ last.op = "addResult"
       /\ last.p = pair[2]
       /\ hasPlayed(players[pair[2]], heap)
       /\ ~hasPlayed(players[pair[1]], heap)

\* C8: an instant update with timestamp t (here through
\* processPuzzleAttempt) decays the RD up to t, records exactly one result
\* (the puzzle at RD 50, outcome 1 or 0; nothing of earlier updates), runs the
\* period update on that buffer of one and on the decayed player, and then
\* sets lastUpdateTime to t; the returned snapshot is that of the player and
\* has lastUpdateTime = t.
C8_InstantUpdateSequence ==
    last.op = "processPuzzleAttempt"
        => LET t == last.arg.t
               decayed == updateRdForTimeElapsed(Before, calculator, t)
           IN /\ BufferOf(Target, heap) =
                    <<<<OverScaling(last.arg.difficulty - defaultRating)>>,
                      <<OverScaling(50 * PublicScale)>>,
                      <<IF last.arg.solved THEN InternalScale ELSE 0>>>>
              /\ Target = setLastUpdateTime(update_rank(decayed, heap, Target.vol), t)
              /\ Target.vol \in UpdateVols(decayed, heap)
              /\ Target.lastUpdateTime = t
              /\ ret = [kind |-> "state", rating |-> getRating(Target),
                        rd |-> getRd(Target), vol |-> getVol(Target),
                        lastUpdateTime |-> t]

C8_Witness ==
    /\ last.op = "processPuzzleAttempt"
    /\ hasPlayed(Before, last.preHeap)
    /\ Before.fractionalCalculator # Undefined
    /\ last.arg.t > Before.lastUpdateTime
    /\ updateRdForTimeElapsed(Before, calculator, last.arg.t).rd > Before.rd
    /\ Len(Outcomes(Target, heap)) = 1

\* C9: constructing a Player with a non-positive RD or volatility, or a
\* FractionalPeriodCalculator with a non-positive period, fails with an error
\* instead of producing an object.
C9_InvalidConfigurationRejected ==
    /\ (last.op = "new Player" /\ (last.arg.rd <= 0 \/ last.arg.vol <= 0))
          => ret.kind = "error"
    /\ (last.op = "new FractionalPeriodCalculator" /\ last.arg.days <= 0)
          => ret.kind = "error"

\* C10: in every reachable state every player's stored RD and stored
\* volatility are strictly positive.
C10_RdAndVolPositive ==
    \A p \in Slots : players[p].rd > 0 /\ players[p].vol > 0

\* Two internal-scale (or two public-scale) numbers that differ by rounding
\* only: equal up to floating tolerance in the program.
Close(a, b) == Abs(a - b) <= 2

\* C11: on a player with an empty buffer, updateRdForTimeElapsed over exactly
\* one full rating period leaves the stored RD that update_rank() (the idle
\* branch) leaves from the same RD and volatility.
C11_DecayOfOnePeriodIsIdleUpdate ==
    (/\ last.op = "updateRdForTimeElapsed"
     /\ Before.fractionalCalculator # Undefined
     /\ ~hasPlayed(Before, last.preHeap)
     /\ calculateElapsedPeriods(calculator, Before.lastUpdateTime, last.arg.t)
           = PeriodScale)
        => Close(Target.rd, update_rank(Before, last.preHeap, Before.vol).rd)

\* C12: idle decay is additive in time: after updateRdForTimeElapsed(t1) with
\* lastUpdateTime <= t1, updateRdForTimeElapsed(t2) for any t2 >= t1 leaves
\* the stored RD (up to rounding) and the lastUpdateTime that
\* updateRdForTimeElapsed(t2) alone leaves, and nothing else differs.
C12_DecayIsAdditive ==
    (/\ last.op = "updateRdForTimeElapsed"
     /\ Before.fractionalCalculator # Undefined
     /\ last.arg.t >= Before.lastUpdateTime)
        => \A t2 \in LaterTimes :
              t2 >= last.arg.t =>
                 /\ Close(updateRdForTimeElapsed(Target, calculator, t2).rd,
                          updateRdForTimeElapsed(Before, calculator, t2).rd)
                 /\ [updateRdForTimeElapsed(Target, calculator, t2)
                        EXCEPT !.rd = 0]
                    = [updateRdForTimeElapsed(Before, calculator, t2)
                          EXCEPT !.rd = 0]
                 /\ t2 > Before.lastUpdateTime =>
                       updateRdForTimeElapsed(Target, calculator, t2).lastUpdateTime
                          = t2

C12_Witness ==
    /\ last.op = "updateRdForTimeElapsed"
    /\ Before.fractionalCalculator # Undefined
    /\ last.arg.t > Before.lastUpdateTime
    /\ Target.rd > Before.rd
    /\ \E t2 \in LaterTimes :
          /\ t2 > last.arg.t
          /\ updateRdForTimeElapsed(Target, calculator, t2).rd > Target.rd

\* The number under the square root of the decay of player P up to t.
DecayRadicand(P, t) == getRd(P) * getRd(P) + DecayIncrement(P, t)

\* C13: with a calculator attached and a non-zero volatility the projection
\* getCurrentRating(t) carries the stored rating and volatility; its RD is the
\* stored RD for t <= lastUpdateTime; and for lastUpdateTime <= t < t2 the
\* projected RD at t2 is greater than at t: the number under the square root
\* is strictly greater, the rounded root is never smaller, and it is strictly
\* greater wherever the growth exceeds the rounding.
C13_ProjectedRdMonotone ==
    (/\ last.op = "getCurrentRating"
     /\ Target.fractionalCalculator # Undefined
     /\ Target.vol # 0)
        => /\ ret.rating = getRating(Target)
           /\ ret.vol = getVol(Target)
           /\ last.arg.t <= Target.lastUpdateTime => ret.rd = getRd(Target)
           /\ last.arg.t > Target.lastUpdateTime =>
                 ret.rd = ISqrt(DecayRadicand(Target, last.arg.t))
           /\ last.arg.t >= Target.lastUpdateTime =>
                 \A t2 \in LaterTimes :
                    t2 > last.arg.t =>
                       /\ DecayRadicand(Target, t2)
                             > DecayRadicand(Target, last.arg.t)
                       /\ getCurrentRating(Target, calculator, t2).rd
                             = ISqrt(DecayRadicand(Target, t2))
                       /\ getCurrentRating(Target, calculator, t2).rd >= ret.rd
                       /\ (DecayRadicand(Target, t2)
                              - DecayRadicand(Target, last.arg.t)
                              >= 2 * Abs(ret.rd) + 2)
                             => getCurrentRating(Target, calculator, t2).rd
                                   > ret.rd

C13_Witness ==
    /\ last.op = "getCurrentRating"
    /\ Target.fractionalCalculator # Undefined
    /\ Target.vol # 0
    /\ last.arg.t > Target.lastUpdateTime
    /\ ret.rd > getRd(Target)
    /\ \E t2 \in LaterTimes :
          /\ t2 > last.arg.t
          /\ getCurrentRating(Target, calculator, t2).rd > ret.rd

\* C14: addResult(opponent, outcome) appends the opponent's internal rating
\* to adv_ranks, its internal RD to adv_rds and the outcome as given (inside
\* [0,1] or not) to outcomes, after the entries already there, and changes
\* nothing else: no player and no other array; and in every state the three
\* arrays of a player have the same length.
C14_AddResultAppendsOnly ==
    /\ \A p \in Slots :
          /\ Len(Ranks(players[p], heap)) = Len(Outcomes(players[p], heap))
          /\ Len(RdsOf(players[p], heap)) = Len(Outcomes(players[p], heap))
    /\ last.op = "addResult"
          => /\ players = last.prePlayers
             /\ Ranks(Target, heap)
                   = Append(Ranks(Before, last.preHeap),
                            last.prePlayers[last.arg.opponent].rating)
             /\ RdsOf(Target, heap)
                   = Append(RdsOf(Before, last.preHeap),
                            last.prePlayers[last.arg.opponent].rd)
             /\ Outcomes(Target, heap)
                   = Append(Outcomes(Before, last.preHeap), last.arg.outcome)
             /\ Len(heap) = Len(last.preHeap)
             /\ \A a \in 1..Len(heap) :
                   a \notin ArraysOf(Target) => heap[a] = last.preHeap[a]

C14_Witness ==
    /\ last.op = "addResult"
    /\ Len(Outcomes(Before, last.preHeap)) = 1
    /\ Len(Outcomes(Target, heap)) = 2
    /\ last.arg.outcome > InternalScale
    /\ Outcomes(Target, heap)[1] # Outcomes(Target, heap)[2]

\* C15: update_rank() on a buffer of one result: after a win (outcome 1)
\* against a higher-rated opponent the rating is strictly greater than
\* before, after a loss (outcome 0) against a lower-rated opponent strictly
\* lower, on the internal and on the public scale.
C15_WinLossDirection ==
    (last.op = "update_rank" /\ Len(Outcomes(Before, last.preHeap)) = 1)
        => /\ (/\ Outcomes(Before, last.preHeap)[1] = InternalScale
               /\ Ranks(Before, last.preHeap)[1] > Before.rating)
                 => /\ Target.rating > Before.rating
                    /\ getRating(Target) > getRating(Before)
           /\ (/\ Outcomes(Before, last.preHeap)[1] = 0
               /\ Ranks(Before, last.preHeap)[1] < Before.rating)
                 => /\ Target.rating < Before.rating
                    /\ getRating(Target) < getRating(Before)

C15_Witness ==
    /\ last.op = "update_rank"
    /\ Len(Outcomes(Before, last.preHeap)) = 1
    /\ Outcomes(Before, last.preHeap)[1] = 0
    /\ Ranks(Before, last.preHeap)[1] < Before.rating
    /\ getRating(Target) < getRating(Before)

\* C19: update_rank() on a non-empty buffer: v and delta come from the
\* rating and RD before the call; the volatility algorithm is called with
\* them and with the volatility, tau, RD and rating before the call, and its
\* result is the new volatility; the inflated RD is sqrt(RD^2 + vol'^2) with
\* the RD before the call and the new volatility; the new RD is
\* 1 / sqrt(1 / RD*^2 + 1 / v); and the new rating is the old one plus
\* (new RD)^2 times the sum of g(RD_j) * (outcome_j - E_j), E_j taken at the
\* rating before the call.
C19_UpdateOrder ==
    (last.op = "update_rank" /\ hasPlayed(Before, last.preHeap))
        => LET v == _letiance(Before, last.preHeap)
               inflated == ISqrt(Before.rd * Before.rd + Target.vol * Target.vol)
               newRd == Recip(SqrtFP(SumInverse(Recip(SquareFP(inflated)),
                                                Recip(v))))
           IN /\ Target.vol \in newProcedure(v, _delta(Before, last.preHeap, v),
                                   [vol |-> Before.vol, tau |-> Before.tau,
                                    rd |-> Before.rd, rating |-> Before.rating])
              /\ VolatilityCall(Before, last.preHeap).v = v
              /\ VolatilityCall(Before, last.preHeap).rd = Before.rd
              /\ VolatilityCall(Before, last.preHeap).rating = Before.rating
              /\ Target.rd = newRd
              /\ Target.rating =
                    Before.rating
                    + MulFP(SquareFP(newRd),
                            OutcomeSum(Before, Ranks(Before, last.preHeap),
                                       RdsOf(Before, last.preHeap),
                                       Outcomes(Before, last.preHeap), 1))
              /\ [Target EXCEPT !.vol = Before.vol, !.rd = Before.rd,
                                !.rating = Before.rating] = Before
              /\ heap = last.preHeap

C19_Witness ==
    /\ last.op = "update_rank"
    /\ hasPlayed(Before, last.preHeap)
    /\ Target.vol # Before.vol
    /\ Target.rating # Before.rating
    /\ Target.rd < Before.rd
    /\ ISqrt(Before.rd * Before.rd + Target.vol * Target.vol)
          # ISqrt(Before.rd * Before.rd + Before.vol * Before.vol)

\* C16: after setRating(r) getRating() is r, whatever the player's
\* defaultRating, and after setRd(d) getRd() is d, both up to rounding; the
\* setter changes no other field.  ScaleInputs are public values from
\* -617.25 to 2469.00 the round trip is also computed for, on a player just
\* constructed or just given another defaultRating.
ScaleInputs == {k * 61725 : k \in -1..4}

C16_ScaleRoundTrip ==
    /\ last.op \in {"new Player", "defaultRating ="}
          => \A x \in ScaleInputs :
                /\ Close(getRating(setRating(Target, x)), x)
                /\ Close(getRd(setRd(Target, x)), x)
    /\ last.op = "setRating"
          => /\ Close(getRating(Target), last.arg.rating)
             /\ [Target EXCEPT !.rating = Before.rating] = Before
    /\ last.op = "setRd"
          => /\ Close(getRd(Target), last.arg.rd)
             /\ [Target EXCEPT !.rd = Before.rd] = Before

C16_Witness ==
    /\ last.op = "setRating"
    /\ Target.defaultRating # defaultRating
    /\ Target.rating # Before.rating
    /\ Close(getRating(Target), last.arg.rating)

\* C17: the outcome processPuzzleAttempt and processPuzzleAttemptAdvanced
\* pass on to updateRatingInstant, and so the outcome recorded, lies in [0,1]
\* for every attempt: solved or not, any timeSpent and hintsUsed, given or
\* left out.
C17_PassedOutcomeInUnitInterval ==
    /\ last.op = "processPuzzleAttemptAdvanced"
          => /\ adjustedOutcome(last.arg.attempt) >= 0
             /\ adjustedOutcome(last.arg.attempt) <= InternalScale
             /\ Outcomes(Target, heap) = <<adjustedOutcome(last.arg.attempt)>>
    /\ last.op = "processPuzzleAttempt"
          => Outcomes(Target, heap)
                = <<IF last.arg.solved THEN InternalScale ELSE 0>>

C17_Witness ==
    /\ last.op = "processPuzzleAttemptAdvanced"
    /\ last.arg.attempt.solved
    /\ Has(last.arg.attempt, "hintsUsed")
    /\ last.arg.attempt.hintsUsed > 10
    /\ Outcomes(Target, heap) = <<0>>

\* C18: in processPuzzleAttemptAdvanced, for a solved attempt and the same
\* hintsUsed, the outcome passed on for timeSpent < 30000 is strictly greater
\* than for timeSpent between 30000 and 300000, and that strictly greater
\* than for timeSpent > 300000; and one more hint strictly lowers the outcome
\* of a solved attempt as long as it is above 0.
C18_TimeBonusAndPenalties ==
    (/\ last.op = "processPuzzleAttemptAdvanced"
     /\ last.arg.attempt.solved
     /\ Has(last.arg.attempt, "timeSpent")
     /\ Has(last.arg.attempt, "hintsUsed"))
        => /\ adjustedOutcome([last.arg.attempt EXCEPT !.timeSpent = 10000])
                 > adjustedOutcome([last.arg.attempt EXCEPT !.timeSpent = 60000])
           /\ adjustedOutcome([last.arg.attempt EXCEPT !.timeSpent = 60000])
                 > adjustedOutcome([last.arg.attempt EXCEPT !.timeSpent = 400000])
           /\ adjustedOutcome(last.arg.attempt) > 0
                 => adjustedOutcome([last.arg.attempt EXCEPT !.hintsUsed = @ + 1])
                       < adjustedOutcome(last.arg.attempt)

\* C20: for every t, with or without a calculator, the snapshot that
\* getCurrentRating(t) returns is the state the player would hold after
\* updateRdForTimeElapsed(t): the same rating, RD (up to rounding),
\* volatility and lastUpdateTime, also for t at or before lastUpdateTime.
C20_ProjectionAgreesWithDecay ==
    last.op = "getCurrentRating"
        => /\ ret.rating
                 = getRating(updateRdForTimeElapsed(Target, calculator, last.arg.t))
           /\ Close(ret.rd,
                    getRd(updateRdForTimeElapsed(Target, calculator, last.arg.t)))
           /\ ret.vol
                 = getVol(updateRdForTimeElapsed(Target, calculator, last.arg.t))
           /\ ret.lastUpdateTime
                 = getLastUpdateTime(
                       updateRdForTimeElapsed(Target, calculator, last.arg.t))

\* C21: updateRdForTimeElapsed(t), getCurrentRating, addResult and
\* update_rank never lower the stored lastUpdateTime, whatever the
\* timestamps; none of them lowers the stored RD except update_rank() on a
\* non-empty buffer (a rating update); and with no calculator attached
\* updateRdForTimeElapsed changes nothing at all.
C21_TimeAndRdNeverDecrease ==
    /\ last.op \in {"updateRdForTimeElapsed", "getCurrentRating", "addResult",
                    "update_rank"}
          => /\ Target.lastUpdateTime >= Before.lastUpdateTime
             /\ (last.op = "update_rank" /\ hasPlayed(Before, last.preHeap))
                \/ Target.rd >= Before.rd
             /\ \A q \in 1..Len(last.prePlayers) :
                   q # last.p => players[q] = last.prePlayers[q]
    /\ (last.op = "updateRdForTimeElapsed"
        /\ Before.fractionalCalculator = Undefined)
          => players = last.prePlayers /\ heap = last.preHeap

C21_Witness ==
    /\ last.op = "updateRdForTimeElapsed"
    /\ Before.fractionalCalculator # Undefined
    /\ last.arg.t < Before.lastUpdateTime
    /\ Target.lastUpdateTime = Before.lastUpdateTime
    /\ Target.rd = Before.rd

\* C22: processPuzzleAttempts(player, attempts) returns a defined rating
\* state for every attempts array, the empty one included, and it is the
\* state the last attempt produced through processPuzzleAttemptAdvanced at
\* that attempt's own attemptTime, an attemptTime of 0 included (the current
\* time where the attempt gives none).
C22_BatchReturnsLastState ==
    last.op = "processPuzzleAttempts"
        => /\ ret.kind = "state"
           /\ Len(last.arg.attempts) = 0
                 => players = last.prePlayers /\ heap = last.preHeap
           /\ Len(last.arg.attempts) > 0
                 => /\ Outcomes(Target, heap) =
                          <<adjustedOutcome(
                               last.arg.attempts[Len(last.arg.attempts)])>>
                    /\ ret.lastUpdateTime = Target.lastUpdateTime
                    /\ ret.lastUpdateTime =
                          IF Has(last.arg.attempts[Len(last.arg.attempts)],
                                 "attemptTime")
                          THEN last.arg.attempts[Len(last.arg.attempts)].attemptTime
                          ELSE last.arg.now

\* The snapshot, the iterations and the target of the suggestion just made.
Snapshot == ret.currentRating
Steps == ret.steps

\* C23 as stated: suggestPuzzleDifficulty runs at most 20 iterations, always
\* returns a value within [rating - 500, rating + 500] of the player's
\* current rating, and for a target success rate above 0.5 the suggested
\* difficulty is below the player's rating.
C23_SuggestionInRangeAndBelowRating ==
    last.op = "suggestPuzzleDifficulty"
        => /\ Len(Steps) <= MaxIterations
           /\ ret.value >= Snapshot.rating - 500 * PublicScale
           /\ ret.value <= Snapshot.rating + 500 * PublicScale
           /\ last.arg.target > InternalScale \div 2
                 => ret.value < Snapshot.rating

\* C23: suggestPuzzleDifficulty changes nothing and runs at least one and at
\* most 20 bisection iterations from [rating - 500, rating + 500] around
\* the player's current rating; every iteration keeps low <= mid <= high
\* and scores mid with calculateExpectedScore at the snapshot's rating and
\* RD; an iteration that does not return hands the next one the upper half
\* (low = mid) exactly when its expected score exceeds the target and the
\* lower half (high = mid) otherwise, the width halving up to rounding; the
\* search returns early only from an iteration whose expected score is
\* within 0.01 of the target; the returned value is a whole number within
\* half a point of [rating - 500, rating + 500]; and for a target success
\* rate of at least 0.51 it is below the player's rating.
C23_BisectionSearch ==
    last.op = "suggestPuzzleDifficulty"
        => /\ players = last.prePlayers /\ heap = last.preHeap
           /\ Snapshot = getCurrentRating(Target, calculator, last.arg.now)
           /\ Len(Steps) >= 1 /\ Len(Steps) <= MaxIterations
           /\ Steps[1].low = Snapshot.rating - 500 * PublicScale
           /\ Steps[1].high = Snapshot.rating + 500 * PublicScale
           /\ \A i \in 1..Len(Steps) :
                 /\ Steps[i].low <= Steps[i].mid
                 /\ Steps[i].mid <= Steps[i].high
                 /\ Steps[i].expectedScore =
                       calculateExpectedScore(Snapshot.rating, Steps[i].mid,
                                              Snapshot.rd)
                 /\ Steps[i].returned
                       <=> Abs(Steps[i].expectedScore - last.arg.target)
                              < InternalScale \div 100
                 /\ Steps[i].returned => i = Len(Steps)
           /\ \A i \in 1..(Len(Steps) - 1) :
                 /\ Steps[i].expectedScore > last.arg.target
                       => /\ Steps[i + 1].low = Steps[i].mid
                          /\ Steps[i + 1].high = Steps[i].high
                 /\ Steps[i].expectedScore <= last.arg.target
                       => /\ Steps[i + 1].low = Steps[i].low
                          /\ Steps[i + 1].high = Steps[i].mid
                 /\ 2 * (Steps[i + 1].high - Steps[i + 1].low)
                       <= Steps[i].high - Steps[i].low + 1
           /\ Len(Steps) < MaxIterations => Steps[Len(Steps)].returned
           /\ Steps[Len(Steps)].returned
                 => ret.value = MathRound(Steps[Len(Steps)].mid)
           /\ ret.value % PublicScale = 0
           /\ 2 * ret.value >= 2 * (Snapshot.rating - 500 * PublicScale) - PublicScale
           /\ 2 * ret.value <= 2 * (Snapshot.rating + 500 * PublicScale) + PublicScale
           /\ last.arg.target >= 51 * (InternalScale \div 100)
                 => ret.value < Snapshot.rating

\* A suggestion for a 70% success rate that took several iterations, moved
\* both ends of the interval and returned early, below the rating.
C23_Witness ==
    /\ last.op = "suggestPuzzleDifficulty"
    /\ last.arg.target = 7000
    /\ Len(Steps) >= 4 /\ Len(Steps) < MaxIterations
    /\ \E i \in 1..(Len(Steps) - 1) : Steps[i + 1].low = Steps[i].mid
    /\ \E i \in 1..(Len(Steps) - 1) : Steps[i + 1].high = Steps[i].mid
    /\ Steps[Len(Steps)].returned
    /\ ret.value < Snapshot.rating

====
